---------------------------- MODULE Spec2Model ----------------------------
(***************************************************************************)
(* Model of compare-sheets: the value comparator compare_values, the       *)
(* reconciliation engine compare_files (app/pages/sheets/state.py) and the *)
(* four-step wizard that drives it (app/pages/sheets/ui.py).               *)
(*                                                                         *)
(* Three specifications share the variables:                              *)
(*   SpecCmp    - compare_values applied to every pair of bounded values  *)
(*   Spec       - compare_files called (up to twice) on bounded datasets  *)
(*   SpecWizard - the wizard's session state under clicks and inputs      *)
(***************************************************************************)
EXTENDS Integers, Sequences, FiniteSets, TLC

VARIABLES
    \* compare_values (SpecCmp)
    val1, val2, cmp_pc, cmp_result,
    \* compare_files (Spec)
    df1, df2, column_mapping, orig1, orig2, calls,
    \* wizard session state (SpecWizard)
    current_step, file1, file2, header1, header2, ref_col1, ref_col2,
    column_pairs, offered, compare_args

cmpVars == <<val1, val2, cmp_pc, cmp_result>>
engVars == <<df1, df2, column_mapping, orig1, orig2, calls>>
wizVars == <<current_step, file1, file2, header1, header2, ref_col1, ref_col2,
             column_pairs, offered, compare_args>>
vars == <<cmpVars, engVars, wizVars>>

(***************************************************************************)
(* Cell values.  A cell is a tagged scalar [kind, num, txt]:               *)
(*   "null"  NaN / None (pd.isna is true)                                  *)
(*   "int"   a Python int (a cell of an object-dtype column)               *)
(*   "npint" a numpy int64 scalar (a cell of an integer column, as         *)
(*           Series.values yields it); it is NOT an instance of int        *)
(*   "float" a Python float or numpy float64 (a subclass of float)         *)
(*   "bool"  a Python bool (a subclass of int)                             *)
(*   "str"   text                                                          *)
(*   "date"  any other type (a timestamp)                                  *)
(* num is the numeric value in thousandths (fixed point), txt the text as  *)
(* a sequence of one-character strings.                                    *)
(***************************************************************************)
Null == [kind |-> "null", num |-> 0, txt |-> <<>>]
PyInt(n) == [kind |-> "int", num |-> n * 1000, txt |-> <<>>]
NpInt(n) == [kind |-> "npint", num |-> n * 1000, txt |-> <<>>]
Float(m) == [kind |-> "float", num |-> m, txt |-> <<>>]
Bool(b) == [kind |-> "bool", num |-> IF b THEN 1000 ELSE 0, txt |-> <<>>]
Str(s) == [kind |-> "str", num |-> 0, txt |-> s]
Date(d) == [kind |-> "date", num |-> d, txt |-> <<>>]

\* Largest float of the comparator's domain, in thousandths.
MaxMilli == 26
\* Largest integer of the comparator's domain.
MaxInt == 2

\* pd.isna(v)
IsNa(v) == v.kind = "null"

\* isinstance(v, (float, int)): bool is a subclass of int, numpy.float64 a
\* subclass of float; numpy.int64 is neither.
IsFloatOrInt(v) == v.kind \in {"int", "float", "bool"}

\* isinstance(v, str)
IsStr(v) == v.kind = "str"

\* Thousandths whose double lies on or above the decimal tie so that Python's
\* round(x, 2) goes up (0.005 -> 0.01, 0.025 -> 0.03); the other ties go down
\* (0.015 -> 0.01, 0.045 -> 0.04).
TiesUp == {5, 25, 35, 55, 65, 85, 95, 115, 135, 165, 195, 225, 255, 265, 275,
           315, 325, 335, 375, 385, 395}

\* round(float(v), 2), in hundredths, of a value given in thousandths.
Round2(m) ==
    LET q == m \div 10
        r == m % 10
    IN  IF r < 5 THEN q
        ELSE IF r > 5 THEN q + 1
        ELSE IF m \in TiesUp THEN q + 1 ELSE q

\* str.lower() on one character.
LowerChar(c) ==
    CASE c = "A" -> "a"
      [] c = "B" -> "b"
      [] c = "X" -> "x"
      [] OTHER -> c

Lower(s) == [i \in 1..Len(s) |-> LowerChar(s[i])]

RECURSIVE LStrip(_)
LStrip(s) == IF s # <<>> /\ Head(s) = " " THEN LStrip(Tail(s)) ELSE s

RECURSIVE RStrip(_)
RStrip(s) ==
    IF s # <<>> /\ s[Len(s)] = " " THEN RStrip(SubSeq(s, 1, Len(s) - 1)) ELSE s

\* str.strip()
Strip(s) == RStrip(LStrip(s))

IsNumber(v) == v.kind \in {"int", "npint", "float", "bool"}

\* Python's ==  on two non-null scalars: numbers (bool included) compare by
\* value whatever their types, text compares exactly, a timestamp equals a
\* timestamp of the same instant, and unrelated types are unequal.
PyEq(a, b) ==
    IF IsNumber(a) /\ IsNumber(b) THEN a.num = b.num
    ELSE IF a.kind = "str" /\ b.kind = "str" THEN a.txt = b.txt
    ELSE IF a.kind = "date" /\ b.kind = "date" THEN a.num = b.num
    ELSE FALSE

compare_values(v1, v2) ==
    IF IsNa(v1) /\ IsNa(v2) THEN TRUE
    ELSE IF IsNa(v1) \/ IsNa(v2) THEN FALSE
    ELSE IF IsFloatOrInt(v1) /\ IsFloatOrInt(v2)
        THEN Round2(v1.num) = Round2(v2.num)
    ELSE IF IsStr(v1) /\ IsStr(v2)
        THEN Lower(Strip(v1.txt)) = Lower(Strip(v2.txt))
    ELSE PyEq(v1, v2)

(***************************************************************************)
(* SpecCmp: compare_values on every pair of values of a bounded domain.    *)
(***************************************************************************)
Texts == { <<>>, <<"a">>, <<"A">>, <<" ", "a">>, <<"a", " ">>, <<"b">>,
           <<"1">>, <<"T", "r", "u", "e">> }

CmpValues ==
    {Null}
    \cup {PyInt(n) : n \in 0..MaxInt}
    \cup {NpInt(n) : n \in 0..MaxInt}
    \cup {Float(m) : m \in 0..MaxMilli}
    \cup {Float(n * 1000 + k) : n \in 1..MaxInt, k \in {0, 4, 6}}
    \cup {Bool(TRUE), Bool(FALSE)}
    \cup {Str(s) : s \in Texts}
    \cup {Date(0), Date(1000)}

EngineIdle ==
    /\ df1 = <<>> /\ df2 = <<>>
    /\ column_mapping = [id |-> <<"id", "key">>, pairs |-> <<>>]
    /\ orig1 = <<>> /\ orig2 = <<>>
    /\ calls = <<>>

WizardIdle ==
    /\ current_step = 0
    /\ file1 = FALSE /\ file2 = FALSE
    /\ header1 = -1 /\ header2 = -1
    /\ ref_col1 = "None" /\ ref_col2 = "None"
    /\ column_pairs = <<>>
    /\ offered = {}
    /\ compare_args = <<>>

CmpInit ==
    /\ val1 \in CmpValues
    /\ val2 \in CmpValues
    /\ cmp_pc = "start"
    /\ cmp_result = FALSE
    /\ EngineIdle
    /\ WizardIdle

CmpIdle ==
    /\ val1 = Null /\ val2 = Null /\ cmp_pc = "start" /\ cmp_result = FALSE

Compare ==
    /\ cmp_pc = "start"
    /\ cmp_result' = compare_values(val1, val2)
    /\ cmp_pc' = "done"
    /\ UNCHANGED <<val1, val2, engVars, wizVars>>

CmpNext == Compare

SpecCmp == CmpInit /\ [][CmpNext]_vars

(***************************************************************************)
(* compare_files.  A dataset is a sequence of rows, a row a function from  *)
(* the dataset's column names to cells.  The mapping holds the identifier  *)
(* pair under "id" and the comparison pairs in the dictionary's order;     *)
(* pair k has the key comparison_k.                                        *)
(***************************************************************************)
\* df1.columns and df2.columns
Cols1 == {"id", "a"}
Cols2 == {"key", "a"}

\* Most rows of a dataset, most comparison pairs of a mapping.
MaxRows == 2
MaxPairs == 2

Digits == <<"0", "1", "2", "3", "4", "5", "6", "7", "8", "9">>

RECURSIVE IntToStr(_)
IntToStr(n) ==
    IF n < 10 THEN <<Digits[n + 1]>>
    ELSE IntToStr(n \div 10) \o <<Digits[(n % 10) + 1]>>

\* The decimals of a float's text: thousandths without trailing zeros, at
\* least one digit ("10.004", "1.0").
FracToStr(f) ==
    IF f % 100 = 0 THEN <<Digits[(f \div 100) + 1]>>
    ELSE IF f % 10 = 0
        THEN <<Digits[(f \div 100) + 1], Digits[((f \div 10) % 10) + 1]>>
    ELSE <<Digits[(f \div 100) + 1], Digits[((f \div 10) % 10) + 1],
           Digits[(f % 10) + 1]>>

\* Series.astype(str) on one cell: text, a number or a bool.
AsStr(v) ==
    CASE v.kind = "str" -> v.txt
      [] v.kind \in {"int", "npint"} -> IntToStr(v.num \div 1000)
      [] v.kind = "float" ->
            IntToStr(v.num \div 1000) \o <<".">> \o FracToStr(v.num % 1000)
      [] v.kind = "bool" ->
            IF v.num = 0 THEN <<"F", "a", "l", "s", "e">>
            ELSE <<"T", "r", "u", "e">>

\* The identifier cast to text but not trimmed.
NormalizeIdNoStrip(v) == Str(AsStr(v))

\* df[col].astype(str).str.strip() on one cell
NormalizeId(v) == Str(Strip(AsStr(v)))

\* df[col] = df[col].astype(str).str.strip(), in place
NormalizeColumn(df, col) ==
    [i \in 1..Len(df) |-> [df[i] EXCEPT ![col] = NormalizeId(@)]]

\* The values of a column, as a set (the right side of isin).
ColumnSet(df, col) == {df[i][col] : i \in 1..Len(df)}

RECURSIVE FilterRows(_, _, _)
\* df[~df[col].isin(others)], in the dataset's order
FilterRows(df, col, others) ==
    IF df = <<>> THEN <<>>
    ELSE IF Head(df)[col] \in others THEN FilterRows(Tail(df), col, others)
    ELSE <<Head(df)>> \o FilterRows(Tail(df), col, others)

RECURSIVE MatchRight(_, _, _, _)
\* The joined rows of one left row, in the right dataset's order.
MatchRight(left, right, col1, col2) ==
    IF right = <<>> THEN <<>>
    ELSE IF left[col1] = Head(right)[col2]
        THEN <<[file1 |-> left, file2 |-> Head(right)]>>
             \o MatchRight(left, Tail(right), col1, col2)
    ELSE MatchRight(left, Tail(right), col1, col2)

RECURSIVE Merge(_, _, _, _)
\* pd.merge(df1_renamed, df2_renamed, left_on, right_on, how="inner"): every
\* pair of rows with equal keys, in the order of the left keys.  A joined
\* row keeps each side's columns under the side's tag (the _file1 and
\* _file2 suffixes).
Merge(left, right, col1, col2) ==
    IF left = <<>> THEN <<>>
    ELSE MatchRight(Head(left), right, col1, col2)
         \o Merge(Tail(left), right, col1, col2)

\* f"{col1}_file1" not in common_records.columns, and the same for file 2
Missing1(pair) == pair[1] \notin Cols1
Missing2(pair) == pair[2] \notin Cols2
BadPair(pair) == Missing1(pair) \/ Missing2(pair)

\* The pairs that fail the column check, by position.
BadPairs(pairs) == {k \in 1..Len(pairs) : BadPair(pairs[k])}

\* The first pair of the loop that raises.
FirstBad(pairs) == CHOOSE k \in BadPairs(pairs) : \A j \in BadPairs(pairs) : k <= j

\* matches = [compare_values(v1, v2) for v1, v2 in zip(...)]
Matches(common, pair) ==
    [i \in 1..Len(common) |->
        compare_values(common[i].file1[pair[1]], common[i].file2[pair[2]])]

\* The loop assigning the last pair's flags instead of and-ing them.
AccumulateOverwrite(all_matches, matches) ==
    [i \in 1..Len(all_matches) |-> matches[i]]

\* One step of the loop: all_matches &= matches
Accumulate(all_matches, matches) ==
    [i \in 1..Len(all_matches) |-> all_matches[i] /\ matches[i]]

\* The match vector of every pair, in the mapping's order.
PairMatches(common, pairs) ==
    [k \in 1..Len(pairs) |-> Matches(common, pairs[k])]

RECURSIVE AllMatches(_, _, _)
\* all_matches after the first k pairs, from np.ones(len(common_records))
AllMatches(flags, n, k) ==
    IF k = 0 THEN [i \in 1..n |-> TRUE]
    ELSE Accumulate(AllMatches(flags, n, k - 1), flags[k])

\* pd.DataFrame(comparison_data): the id, each pair's two values and flag,
\* and the overall flag, row by row.
ComparisonRows(common, pairs, idcol, flags, all_matches) ==
    [i \in 1..Len(common) |->
        [id |-> common[i].file1[idcol],
         cells |-> [k \in 1..Len(pairs) |->
                      [file1 |-> common[i].file1[pairs[k][1]],
                       file2 |-> common[i].file2[pairs[k][2]],
                       matches |-> flags[k][i]]],
         all_columns_match |-> all_matches[i]]]

RECURSIVE SelectRows(_, _)
SelectRows(rows, flag) ==
    IF rows = <<>> THEN <<>>
    ELSE IF Head(rows).all_columns_match = flag
        THEN <<Head(rows)>> \o SelectRows(Tail(rows), flag)
    ELSE SelectRows(Tail(rows), flag)

\* The comparison rows left in the order of the join.
SortValuesSkipped(rows) == rows

\* .sort_values("all_columns_match", ascending=False): the rows whose flag
\* is True, then the rows whose flag is False.
SortValues(rows) == SelectRows(rows, TRUE) \o SelectRows(rows, FALSE)

\* The number of True entries: all_matches.sum()
RECURSIVE Sum(_)
Sum(flags) ==
    IF flags = <<>> THEN 0
    ELSE (IF Head(flags) THEN 1 ELSE 0) + Sum(Tail(flags))

\* A miscount of the mismatched rows: every common row is counted.
MismatchedCountsAll(all_matches) == Len(all_matches)

\* "Mismatched records": len(all_matches) - all_matches.sum()
Mismatched(all_matches) == Len(all_matches) - Sum(all_matches)

NoResult ==
    [comparison_df |-> <<>>, summary |-> <<>>,
     not_in_file1 |-> <<>>, not_in_file2 |-> <<>>]
NoError == [kind |-> "none", column |-> "", file |-> 0]
NoWork == [normalized1 |-> FALSE, normalized2 |-> FALSE,
           merged |-> FALSE, evaluated |-> 0]

\* A call that raised: the error, the datasets as the call left them and
\* the steps it had run (work).
Raised(kind, column, file, d1, d2, work) ==
    [status |-> "raised",
     error |-> [kind |-> kind, column |-> column, file |-> file],
     df1 |-> d1, df2 |-> d2, work |-> work, result |-> NoResult]

\* The second check raising with the first column's name.
RaisePairFirstColumn(pairs, n1, n2) ==
    LET k == FirstBad(pairs)
    IN  Raised("Exception", pairs[k][1], 1, n1, n2,
               [normalized1 |-> TRUE, normalized2 |-> TRUE,
                merged |-> TRUE, evaluated |-> k - 1])

\* The loop over the pairs with a pair whose column is missing: the pairs
\* before it are evaluated, then KeyError is raised and re-raised as
\* Exception with the column's name in its message.
RaisePair(pairs, n1, n2) ==
    LET k == FirstBad(pairs)
    IN  Raised("Exception",
               IF Missing1(pairs[k]) THEN pairs[k][1] ELSE pairs[k][2],
               IF Missing1(pairs[k]) THEN 1 ELSE 2,
               n1, n2,
               [normalized1 |-> TRUE, normalized2 |-> TRUE,
                merged |-> TRUE, evaluated |-> k - 1])

\* The call from the merge on, with both identifier columns normalized.
Reconcile(n1, n2, mapping, elapsed) ==
    LET idc1 == mapping.id[1]
        idc2 == mapping.id[2]
        pairs == mapping.pairs
        not_in_df1 == FilterRows(n2, idc2, ColumnSet(n1, idc1))
        not_in_df2 == FilterRows(n1, idc1, ColumnSet(n2, idc2))
        common_records == Merge(n1, n2, idc1, idc2)
        flags == PairMatches(common_records, pairs)
        all_matches == AllMatches(flags, Len(common_records), Len(pairs))
    IN  IF BadPairs(pairs) # {} THEN RaisePair(pairs, n1, n2)
        ELSE [status |-> "returned",
              error |-> NoError,
              df1 |-> n1, df2 |-> n2,
              work |-> [normalized1 |-> TRUE, normalized2 |-> TRUE,
                        merged |-> TRUE, evaluated |-> Len(pairs)],
              result |->
                [comparison_df |->
                    SortValues(ComparisonRows(common_records, pairs, idc1,
                                              flags, all_matches)),
                 summary |->
                    [total1 |-> Len(n1),
                     total2 |-> Len(n2),
                     only1 |-> Len(not_in_df2),
                     only2 |-> Len(not_in_df1),
                     common |-> Len(common_records),
                     matching |-> Sum(all_matches),
                     mismatched |-> Mismatched(all_matches),
                     time_taken |-> elapsed],
                 not_in_file1 |-> not_in_df1,
                 not_in_file2 |-> not_in_df2]]

\* The identifier columns normalized only after the unmatched sets and the
\* join have been computed from the datasets as passed.
compare_files_normalize_late(d1, d2, mapping, elapsed) ==
    LET idc1 == mapping.id[1]
        idc2 == mapping.id[2]
    IN  IF idc1 \notin Cols1
            THEN Raised("KeyError", idc1, 1, d1, d2, NoWork)
        ELSE IF idc2 \notin Cols2
            THEN Raised("KeyError", idc2, 2, NormalizeColumn(d1, idc1), d2,
                        [NoWork EXCEPT !.normalized1 = TRUE])
        ELSE [Reconcile(d1, d2, mapping, elapsed) EXCEPT
                 !.df1 = NormalizeColumn(d1, idc1),
                 !.df2 = NormalizeColumn(d2, idc2)]

\* compare_files(df1, df2, column_mapping): the outcome of one call, with
\* the datasets as the call leaves them.  df1[df1_id_col] raises KeyError
\* on a missing identifier column: for file 1 before anything is assigned,
\* for file 2 after file 1's identifier column has been rewritten.
compare_files(d1, d2, mapping, elapsed) ==
    LET idc1 == mapping.id[1]
        idc2 == mapping.id[2]
    IN  IF idc1 \notin Cols1
            THEN Raised("KeyError", idc1, 1, d1, d2, NoWork)
        ELSE IF idc2 \notin Cols2
            THEN Raised("KeyError", idc2, 2, NormalizeColumn(d1, idc1), d2,
                        [NoWork EXCEPT !.normalized1 = TRUE])
        ELSE Reconcile(NormalizeColumn(d1, idc1), NormalizeColumn(d2, idc2),
                       mapping, elapsed)

(***************************************************************************)
(* Spec: compare_files called on bounded datasets and mappings, then       *)
(* called again on the same dataset objects.                               *)
(***************************************************************************)
Rows1 ==
    { [id |-> Str(<<" ", "1">>), a |-> Float(10004)],
      [id |-> Str(<<"1">>), a |-> Str(<<"A", "b">>)],
      [id |-> PyInt(2), a |-> Str(<<"2", " ">>)] }

Rows2 ==
    { [key |-> Str(<<"1", " ">>), a |-> Float(10000)],
      [key |-> Str(<<"2">>), a |-> Str(<<"2">>)] }

\* The identifier pairs: a valid one, one missing in file 1, one in file 2.
IdPairs == { <<"id", "key">>, <<"key", "key">>, <<"id", "id">> }

\* The comparison pairs: two valid ones, one whose first column is missing
\* in file 1 and one whose second column is missing in file 2.
PairChoices == { <<"a", "a">>, <<"id", "a">>, <<"key", "a">>, <<"a", "id">> }

\* The values perf_counter() - start_time may take, in hundredths of a second.
Elapsed == {0, 1}

SeqsUpTo(S, n) == UNION {[1..m -> S] : m \in 0..n}

EngInit ==
    /\ df1 \in SeqsUpTo(Rows1, MaxRows)
    /\ df2 \in SeqsUpTo(Rows2, MaxRows)
    /\ column_mapping \in
         [id : IdPairs, pairs : SeqsUpTo(PairChoices, MaxPairs)]
    /\ orig1 = df1
    /\ orig2 = df2
    /\ calls = <<>>
    /\ CmpIdle
    /\ WizardIdle

\* One call of compare_files on the caller's dataset objects.
Call ==
    /\ Len(calls) < 2
    /\ \E elapsed \in Elapsed :
         LET out == compare_files(df1, df2, column_mapping, elapsed)
         IN  /\ df1' = out.df1
             /\ df2' = out.df2
             /\ calls' = Append(calls, out)
    /\ UNCHANGED <<column_mapping, orig1, orig2, cmpVars, wizVars>>

Next == Call

Spec == EngInit /\ [][Next]_vars

(***************************************************************************)
(* SpecWizard: the session state of render_file_comparison.  Every action  *)
(* is one user interaction: the click's callback (or the widget's new      *)
(* value) followed by the rerun that renders the current step, assigns the *)
(* widgets' values to the session state and offers the step's buttons.     *)
(* "None" stands for None (and for an attribute not yet set), -1 for a     *)
(* header row not yet set, FALSE for no uploaded file.  compare_args holds  *)
(* the arguments of the invocation of compare_files made by the last run,  *)
(* and is empty when the last run made none.                               *)
(***************************************************************************)
UPLOAD == 0
HEADER == 1
COLUMN_SELECTION == 2
COMPARISON == 3

\* Largest header row and most column pairs the user picks in the model
\* (the number inputs allow rows 0..9 and 1..10 pairs).
MaxHeader == 1
MaxColumnPairs == 2

\* st.selectbox(label, options): one of the options, None when there is none.
SelectBox(options) == IF options = {} THEN {"None"} ELSE options

\* The condition under which "Next" is offered on the upload step.
BothUploaded(f1, f2) == f1 /\ f2

\* "Compare Files" offered as soon as there is a list of pairs.
AllSelectedPairsOnly(r1, r2, pairs) == pairs # <<>>

\* The condition under which "Compare Files" is offered.
AllSelected(r1, r2, pairs) == r1 # "None" /\ r2 # "None" /\ pairs # <<>>

\* handle_file_upload
RenderUpload ==
    /\ \E f1 \in BOOLEAN, f2 \in BOOLEAN :
         /\ file1' = f1
         /\ file2' = f2
         /\ offered' = IF BothUploaded(f1, f2) THEN {"next"} ELSE {}
    /\ compare_args' = <<>>
    /\ UNCHANGED <<header1, header2, ref_col1, ref_col2, column_pairs>>

\* handle_header_selection: the previews are read, then the two number
\* inputs are assigned and both buttons offered; an error reading a preview
\* is reported and nothing is assigned or offered.
RenderHeader ==
    /\ \/ /\ header1' \in 0..MaxHeader
          /\ header2' \in 0..MaxHeader
          /\ offered' = {"back", "next"}
       \/ /\ UNCHANGED <<header1, header2>>
          /\ offered' = {}
    /\ compare_args' = <<>>
    /\ UNCHANGED <<file1, file2, ref_col1, ref_col2, column_pairs>>

\* read_dataframes and handle_column_selection: the select boxes are
\* assigned from the loaded columns (a file may have none), "Back" is
\* offered and "Compare Files" under AllSelected; an error loading the
\* files ends the run with nothing assigned or offered.
RenderColumns ==
    /\ \/ \E c1 \in {Cols1, {}}, c2 \in {Cols2, {}}, n \in 1..MaxColumnPairs :
            \E r1 \in SelectBox(c1), r2 \in SelectBox(c2),
               pairs \in [1..n -> SelectBox(c1) \X SelectBox(c2)] :
                 /\ ref_col1' = r1
                 /\ ref_col2' = r2
                 /\ column_pairs' = pairs
                 /\ offered' = IF AllSelected(r1, r2, pairs)
                                  THEN {"back", "compare"} ELSE {"back"}
       \/ /\ UNCHANGED <<ref_col1, ref_col2, column_pairs>>
          /\ offered' = {}
    /\ compare_args' = <<>>
    /\ UNCHANGED <<file1, file2, header1, header2>>

\* What handle_comparison_results passes on: the files and header rows to
\* load_dataframes, the mapping to compare_files.
ComparisonArgs ==
    [file1 |-> file1, file2 |-> file2,
     header1 |-> header1, header2 |-> header2,
     id |-> <<ref_col1, ref_col2>>, column_pairs |-> column_pairs]

\* handle_comparison_results: the files are loaded and compare_files is
\* invoked; the results are shown with "Start New Comparison".  An error
\* loading the files ends the run before the invocation, an error in
\* compare_files after it; either way nothing is offered.
RenderComparison ==
    /\ \/ /\ compare_args' = <<ComparisonArgs>>
          /\ offered' = {"download", "start_new"}
       \/ /\ compare_args' = <<ComparisonArgs>>
          /\ offered' = {}
       \/ /\ compare_args' = <<>>
          /\ offered' = {}
    /\ UNCHANGED <<file1, file2, header1, header2, ref_col1, ref_col2,
                   column_pairs>>

WizInit ==
    /\ WizardIdle
    /\ CmpIdle
    /\ EngineIdle

\* The user adds or removes a file in an uploader.
UploadFile ==
    /\ current_step = UPLOAD
    /\ UNCHANGED current_step
    /\ RenderUpload
    /\ UNCHANGED <<cmpVars, engVars>>

ClickNextUpload ==
    /\ current_step = UPLOAD
    /\ "next" \in offered
    /\ current_step' = HEADER
    /\ RenderHeader
    /\ UNCHANGED <<cmpVars, engVars>>

\* The user changes a header row.
SetHeader ==
    /\ current_step = HEADER
    /\ offered # {}
    /\ UNCHANGED current_step
    /\ RenderHeader
    /\ UNCHANGED <<cmpVars, engVars>>

ClickBackHeader ==
    /\ current_step = HEADER
    /\ "back" \in offered
    /\ current_step' = UPLOAD
    /\ RenderUpload
    /\ UNCHANGED <<cmpVars, engVars>>

ClickNextHeader ==
    /\ current_step = HEADER
    /\ "next" \in offered
    /\ current_step' = COLUMN_SELECTION
    /\ RenderColumns
    /\ UNCHANGED <<cmpVars, engVars>>

\* The user changes a select box or the number of pairs.
SelectColumns ==
    /\ current_step = COLUMN_SELECTION
    /\ offered # {}
    /\ UNCHANGED current_step
    /\ RenderColumns
    /\ UNCHANGED <<cmpVars, engVars>>

ClickBackColumns ==
    /\ current_step = COLUMN_SELECTION
    /\ "back" \in offered
    /\ current_step' = HEADER
    /\ RenderHeader
    /\ UNCHANGED <<cmpVars, engVars>>

ClickCompare ==
    /\ current_step = COLUMN_SELECTION
    /\ "compare" \in offered
    /\ current_step' = COMPARISON
    /\ RenderComparison
    /\ UNCHANGED <<cmpVars, engVars>>

ClickStartNew ==
    /\ current_step = COMPARISON
    /\ "start_new" \in offered
    /\ current_step' = UPLOAD
    /\ RenderUpload
    /\ UNCHANGED <<cmpVars, engVars>>

WizNext ==
    \/ UploadFile
    \/ ClickNextUpload
    \/ SetHeader
    \/ ClickBackHeader
    \/ ClickNextHeader
    \/ SelectColumns
    \/ ClickBackColumns
    \/ ClickCompare
    \/ ClickStartNew

SpecWizard == WizInit /\ [][WizNext]_vars

(***************************************************************************)
(* Properties of compare_values (checked under SpecCmp).                   *)
(***************************************************************************)
\* An integer or a floating-point number (a bool is not one of them).
IsNumeric(v) == v.kind \in {"int", "npint", "float"}

\* C4: for every pair of non-null numeric values (integers and floats in
\* any combination), compare_values is true iff the two values rounded to
\* two decimals are equal.
C4_NumericRoundedEquality ==
    (cmp_pc = "done" /\ IsNumeric(val1) /\ IsNumeric(val2))
        => (cmp_result <=> (Round2(val1.num) = Round2(val2.num)))

\* C5: for two non-null values that are neither both numeric nor both text,
\* compare_values is true only when they have the same type and the same
\* value: a boolean never matches a number, a number never its text form.
C5_StrictEqualityFallback ==
    (/\ cmp_pc = "done"
     /\ ~IsNa(val1) /\ ~IsNa(val2)
     /\ ~(IsNumeric(val1) /\ IsNumeric(val2))
     /\ ~(IsStr(val1) /\ IsStr(val2))
     /\ cmp_result)
        => val1 = val2

(***************************************************************************)
(* Properties of compare_files (checked under Spec).                       *)
(***************************************************************************)
Returned(i) == i <= Len(calls) /\ calls[i].status = "returned"
RaisedAt(i) == i <= Len(calls) /\ calls[i].status = "raised"
IdColumnsExist ==
    column_mapping.id[1] \in Cols1 /\ column_mapping.id[2] \in Cols2

\* C1: in the summary of every call that returns, matching plus mismatched
\* records equal the common records.
C1_SummaryConsistency ==
    \A i \in 1..Len(calls) :
        Returned(i) =>
            LET sm == calls[i].result.summary
            IN  sm.matching + sm.mismatched = sm.common

\* A call on datasets with a repeated identifier whose join multiplies the
\* rows and holds matching and mismatched rows.
C1_Witness ==
    /\ Returned(1)
    /\ calls[1].result.summary.common > calls[1].result.summary.total1
    /\ calls[1].result.summary.matching >= 1
    /\ calls[1].result.summary.mismatched >= 1

\* The positions of the pairs that name a column absent from its dataset.
AbsentAt ==
    {k \in 1..Len(column_mapping.pairs) :
        \/ column_mapping.pairs[k][1] \notin Cols1
        \/ column_mapping.pairs[k][2] \notin Cols2}

\* C2: a call whose mapping holds a comparison pair with a column absent
\* from its dataset raises, returns no result, and the error names a column
\* that the mapping references and the named dataset lacks; when the
\* identifier columns exist it is the absent column of the first such pair,
\* whatever that pair's position.
C2_MissingColumnRaises ==
    \A i \in 1..Len(calls) :
        AbsentAt # {} =>
            /\ calls[i].status = "raised"
            /\ calls[i].result = NoResult
            /\ LET e == calls[i].error
               IN  /\ e.file \in {1, 2}
                   /\ e.file = 1 => e.column \notin Cols1
                   /\ e.file = 2 => e.column \notin Cols2
                   /\ IdColumnsExist =>
                        \E k \in AbsentAt :
                            /\ \A j \in AbsentAt : k <= j
                            /\ e.kind = "Exception"
                            /\ \/ e.file = 1 /\ e.column = column_mapping.pairs[k][1]
                               \/ e.file = 2 /\ e.column = column_mapping.pairs[k][2]

\* A call that raised on a second pair whose column is absent from file 2,
\* after it evaluated a valid first pair, on datasets with rows.
C2_Witness ==
    /\ RaisedAt(1)
    /\ AbsentAt = {2}
    /\ calls[1].work.evaluated = 1
    /\ calls[1].error = [kind |-> "Exception", column |-> "id", file |-> 2]
    /\ orig1 # <<>>
    /\ orig2 # <<>>

\* C3: when a column of the mapping is missing the call fails before any
\* work (before an identifier column is normalized, before the join, before
\* any pair is evaluated), so both of the caller's datasets are unchanged
\* when the error is observed.
C3_FailFastNoPartialWork ==
    RaisedAt(1) =>
        /\ calls[1].df1 = orig1
        /\ calls[1].df2 = orig2

\* The identifier values of a dataset as the caller passed them.
RawIds(df, col) == {df[i][col] : i \in 1..Len(df)}
\* The identifier values as trimmed text.
TrimmedIds(df, col) == {Str(Strip(AsStr(df[i][col]))) : i \in 1..Len(df)}

\* C6 as stated: identifier values unique within each dataset imply that
\* the common records number the identifier values present in both.
C6_JoinSizeRawIds ==
    Returned(1) =>
        LET c1 == column_mapping.id[1]
            c2 == column_mapping.id[2]
        IN  (/\ Cardinality(RawIds(orig1, c1)) = Len(orig1)
             /\ Cardinality(RawIds(orig2, c2)) = Len(orig2))
                => calls[1].result.summary.common
                     = Cardinality(RawIds(orig1, c1) \cap RawIds(orig2, c2))

\* C6 amended: identifier values unique within each dataset once cast to
\* text and trimmed imply that the common records (the rows of the
\* comparison and the summary's count) number the trimmed identifier values
\* present in both datasets.
C6_JoinSizeTrimmedIds ==
    Returned(1) =>
        LET c1 == column_mapping.id[1]
            c2 == column_mapping.id[2]
        IN  (/\ Cardinality(TrimmedIds(orig1, c1)) = Len(orig1)
             /\ Cardinality(TrimmedIds(orig2, c2)) = Len(orig2))
                => /\ calls[1].result.summary.common
                        = Cardinality(TrimmedIds(orig1, c1)
                                      \cap TrimmedIds(orig2, c2))
                   /\ Len(calls[1].result.comparison_df)
                        = calls[1].result.summary.common

\* Two rows on each side, unique once trimmed, one identifier shared only
\* after trimming.
C6_Witness ==
    /\ Returned(1)
    /\ Len(orig1) = 2 /\ Len(orig2) = 2
    /\ Cardinality(TrimmedIds(orig1, column_mapping.id[1])) = 2
    /\ Cardinality(TrimmedIds(orig2, column_mapping.id[2])) = 2
    /\ RawIds(orig1, column_mapping.id[1])
         \cap RawIds(orig2, column_mapping.id[2]) = {}
    /\ calls[1].result.summary.common = 2

SameExceptTime(r1, r2) ==
    /\ r1.comparison_df = r2.comparison_df
    /\ r1.not_in_file1 = r2.not_in_file1
    /\ r1.not_in_file2 = r2.not_in_file2
    /\ [r1.summary EXCEPT !.time_taken = 0] = [r2.summary EXCEPT !.time_taken = 0]

\* C7: a second call on the same dataset objects and mapping returns the
\* same comparison rows, unmatched sets and summary counts (all but the
\* time taken) as the first, which normalized the identifiers in place.
C7_SecondCallSameResult ==
    (Len(calls) = 2 /\ Returned(1)) =>
        /\ Returned(2)
        /\ SameExceptTime(calls[1].result, calls[2].result)

\* Two calls, the first of which rewrote an identifier, with common and
\* unmatched records and different times taken.
C7_Witness ==
    /\ Len(calls) = 2
    /\ Returned(1) /\ Returned(2)
    /\ calls[1].df1 # orig1
    /\ calls[1].result.comparison_df # <<>>
    /\ calls[1].result.not_in_file2 # <<>>
    /\ calls[1].result.summary.time_taken # calls[2].result.summary.time_taken

Reverse(q) == [k \in 1..Len(q) |-> q[Len(q) + 1 - k]]

\* C8: in every comparison row the overall flag is the conjunction of the
\* row's pair flags (true without pairs), each pair flag is the comparator's
\* verdict on the row's two values, and the flags are the same with the
\* pairs listed in the opposite order.
C8_AllMatchIsConjunction ==
    Returned(1) =>
        LET rows == calls[1].result.comparison_df
            back == compare_files(orig1, orig2,
                        [column_mapping EXCEPT !.pairs = Reverse(@)], 0)
        IN  /\ \A i \in 1..Len(rows) :
                 /\ Len(rows[i].cells) = Len(column_mapping.pairs)
                 /\ rows[i].all_columns_match
                      = (\A k \in 1..Len(rows[i].cells) : rows[i].cells[k].matches)
                 /\ \A k \in 1..Len(rows[i].cells) :
                      rows[i].cells[k].matches
                        = compare_values(rows[i].cells[k].file1,
                                         rows[i].cells[k].file2)
            /\ back.status = "returned"
            /\ Len(back.result.comparison_df) = Len(rows)
            /\ \A i \in 1..Len(rows) :
                 /\ back.result.comparison_df[i].all_columns_match
                      = rows[i].all_columns_match
                 /\ back.result.comparison_df[i].cells = Reverse(rows[i].cells)

\* Two pairs, a row whose first pair differs and whose second matches, and
\* a row whose pairs all match.
C8_Witness ==
    /\ Returned(1)
    /\ Len(column_mapping.pairs) = 2
    /\ \E i \in 1..Len(calls[1].result.comparison_df) :
         LET r == calls[1].result.comparison_df[i]
         IN  ~r.cells[1].matches /\ r.cells[2].matches /\ ~r.all_columns_match
    /\ \E i \in 1..Len(calls[1].result.comparison_df) :
         calls[1].result.comparison_df[i].all_columns_match

\* C9 as stated: every row whose overall flag is false comes before every
\* row whose overall flag is true.
C9_MismatchedRowsFirst ==
    Returned(1) =>
        LET rows == calls[1].result.comparison_df
        IN  \A i \in 1..Len(rows), j \in 1..Len(rows) :
                (~rows[i].all_columns_match /\ rows[j].all_columns_match) => i < j

\* C9 amended: every row whose overall flag is true comes before every row
\* whose overall flag is false.
C9_MatchingRowsFirst ==
    Returned(1) =>
        LET rows == calls[1].result.comparison_df
        IN  \A i \in 1..Len(rows), j \in 1..Len(rows) :
                (rows[i].all_columns_match /\ ~rows[j].all_columns_match) => i < j

\* Two common rows which the join yields mismatched first: the comparison
\* lists the second dataset row's record first.
C9_Witness ==
    /\ Returned(1)
    /\ Len(orig1) = 2 /\ Len(orig2) = 1
    /\ column_mapping.pairs = << <<"a", "a">> >>
    /\ Len(calls[1].result.comparison_df) = 2
    /\ calls[1].result.comparison_df[1].all_columns_match
    /\ ~calls[1].result.comparison_df[2].all_columns_match
    /\ orig1[1].a # orig1[2].a
    /\ calls[1].result.comparison_df[1].cells[1].file1 = orig1[2].a

(***************************************************************************)
(* Properties of the wizard (checked under SpecWizard).                    *)
(***************************************************************************)
Steps == {UPLOAD, HEADER, COLUMN_SELECTION, COMPARISON}

\* The session state compare_files may be invoked in.
ReadyToCompare(a) ==
    /\ a.file1 /\ a.file2
    /\ a.header1 >= 0 /\ a.header2 >= 0
    /\ a.id[1] # "None" /\ a.id[2] # "None"
    /\ Len(a.column_pairs) >= 1

WizardStateOK ==
    /\ current_step \in Steps
    /\ \A k \in 1..Len(compare_args) : ReadyToCompare(compare_args[k])

WizardMoveOK ==
    /\ current_step' # current_step =>
         \/ current_step' = current_step + 1
         \/ current_step' = current_step - 1
         \/ current_step = COMPARISON /\ current_step' = UPLOAD
    /\ (current_step = UPLOAD /\ current_step' = HEADER) => (file1 /\ file2)
    /\ (current_step = COLUMN_SELECTION /\ current_step' = COMPARISON) =>
         (ref_col1 # "None" /\ ref_col2 # "None" /\ column_pairs # <<>>)

\* C10: current_step is always one of the four steps; a click moves it to an
\* adjacent step or from COMPARISON back to UPLOAD; it leaves UPLOAD for
\* HEADER only with both files uploaded and COLUMN_SELECTION for COMPARISON
\* only with both identifier columns and a column pair selected; and
\* compare_files is invoked only with both files, both header rows, both
\* identifier columns and at least one column pair set.
C10_WizardSteps == []WizardStateOK /\ [][WizardMoveOK]_vars

\* compare_files invoked on the comparison step with two column pairs and
\* different header rows.
C10_Witness ==
    /\ current_step = COMPARISON
    /\ compare_args # <<>>
    /\ Len(column_pairs) = 2
    /\ header1 # header2

=============================================================================
